---- MODULE Spec2Model ----
(***************************************************************************)
(* A model of the SmartLife base entity (custom_components/smartlife):     *)
(*   - the data-point resolver find_dpcode / get_dptype and the schema     *)
(*     parsers EnumTypeData.from_json / IntegerTypeData.from_json,         *)
(*   - the integer schema's scaling and remapping arithmetic,              *)
(*   - command submission (_send_command, _send_gate_command) and the      *)
(*     button's press.                                                     *)
(* Three specifications share the module: SpecResolver, SpecSchema and     *)
(* SpecCommand.  Each one moves only its own variables.                    *)
(***************************************************************************)
EXTENDS Integers, Sequences, FiniteSets, TLC

VARIABLES
    device,     \* resolver: the capability record (status_range, function, status)
    lookup,     \* resolver: the last find_dpcode / get_dptype call and its result
    blob,       \* schema: the values blob handed to IntegerTypeData.from_json
    schema,     \* schema: what from_json produced
    trip,       \* schema: a scale_value / scale_value_back chain
    remap,      \* schema: the last remap_value_to / remap_value_from call
    entity,     \* command: the entity (device category, button key)
    run,        \* command: the operation in progress and its position
    calls,      \* command: the send_commands calls made so far, in order
    commands,   \* command: the caller's command dictionaries (mutable)
    text,       \* electricity: the base64 text handed to ElectricityTypeData.from_raw
    electricity \* electricity: what from_raw produced

vars ==
    <<device, lookup, blob, schema, trip, remap, entity, run, calls, commands, text,
      electricity>>
resolverVars == <<device, lookup>>
schemaVars == <<blob, schema, trip, remap>>
commandVars == <<entity, run, calls, commands>>
electricityVars == <<text, electricity>>

(***************************************************************************)
(* Python values.  Every value is a record tagged by cls, so that values   *)
(* of different Python types can be compared.                              *)
(***************************************************************************)
None == [cls |-> "None"]

\* A call's outcome: a returned value or a raised exception.
Return(v) == [st |-> "ok", val |-> v]
Raise(e) == [st |-> "raise", err |-> e]

\* DPType members the code names (the type tags of a descriptor).
ENUM == "Enum"
INTEGER == "Integer"
BOOL == "Boolean"
DPType == {ENUM, INTEGER, BOOL}

(***************************************************************************)
(* JSON.  A values blob is a text; the model keeps its syntax class and,   *)
(* for a well-formed object, the object's members.  Numbers are rationals  *)
(* <<p, q>> with q > 0; a "range" member is a sequence of strings.         *)
(***************************************************************************)
NoDoc == [k \in {} |-> 0]
EmptyText == [syntax |-> "empty", doc |-> NoDoc]            \* ""
MalformedText == [syntax |-> "malformed", doc |-> NoDoc]    \* "{"
Document(d) == [syntax |-> "document", doc |-> d]           \* "{...}"

\* json.loads: a JSONDecodeError on text that is no JSON document.
json_loads(data) ==
    IF data.syntax = "document" THEN Return(data.doc) ELSE Raise("JSONDecodeError")

\* Python truthiness of a parsed JSON object: an empty dict is falsy.
Truthy(parsed) == DOMAIN parsed # {}

(***************************************************************************)
(* Rationals <<p, q>>, q > 0, for JSON numbers.                            *)
(***************************************************************************)
Q(p, q) == <<p, q>>
QLess(a, b) == a[1] * b[2] < b[1] * a[2]
QInt(n) == <<n, 1>>

\* int(x): truncation toward zero.
IntOf(a) == IF a[1] >= 0 THEN a[1] \div a[2] ELSE -((-a[1]) \div a[2])

\* max(x, 1) as Python computes it: the first argument unless 1 is greater.
Max1(a) == IF QLess(a, QInt(1)) THEN QInt(1) ELSE a

(***************************************************************************)
(* EnumTypeData.from_json (base.py 99-104).                                *)
(***************************************************************************)
EnumFromJson(dpcode, data) ==
    LET p == json_loads(data) IN
    IF p.st = "raise" THEN p
    ELSE IF ~Truthy(p.val) THEN Return(None)
    ELSE IF DOMAIN p.val # {"range"} THEN Raise("TypeError")
    ELSE Return([cls |-> "EnumTypeData", dpcode |-> dpcode, range |-> p.val.range])

(***************************************************************************)
(* IntegerTypeData.from_json (base.py 75-89).  The constructor arguments   *)
(* are evaluated in order, so the first missing key raises the KeyError.   *)
(***************************************************************************)
\* A variant that stores the parsed step as it is.
StepOfDefault(parsedStep) == parsedStep

StepOf(parsedStep) == Max1(parsedStep)

IntegerFromJson(dpcode, data) ==
    LET p == json_loads(data) IN
    IF p.st = "raise" THEN p
    ELSE IF ~Truthy(p.val) THEN Return(None)
    ELSE IF ~({"min", "max", "scale", "step"} \subseteq DOMAIN p.val) THEN Raise("KeyError")
    ELSE Return([cls |-> "IntegerTypeData", dpcode |-> dpcode,
                 min |-> IntOf(p.val.min), max |-> IntOf(p.val.max),
                 scale |-> p.val.scale, step |-> StepOf(p.val.step),
                 unit |-> IF "unit" \in DOMAIN p.val
                          THEN [cls |-> "str", s |-> p.val.unit] ELSE None,
                 type |-> IF "type" \in DOMAIN p.val
                          THEN [cls |-> "str", s |-> p.val.type] ELSE None])

(***************************************************************************)
(* The resolver (base.py 189-263).                                         *)
(*                                                                         *)
(* device.status_range and device.function map a DP code to a descriptor   *)
(* [type, values]; device.status maps a DP code to its current value.      *)
(* A dpcodes argument is None or a tuple of codes (a single code is made a *)
(* 1-tuple by lines 200-203); a dptype argument is None or a DPType.       *)
(***************************************************************************)
Codes == {"x", "y"}

NoDptype == "None"

DpcodesNone == [cls |-> "None", codes |-> <<>>]
DpcodesTuple(t) == [cls |-> "tuple", codes |-> t]

\* A variant order with the two capability dictionaries exchanged.
SearchOrderSwapped(prefer_function, dptype) ==
    (IF prefer_function THEN <<"status_range", "function">>
     ELSE <<"function", "status_range">>)
    \o (IF dptype = NoDptype THEN <<"status">> ELSE <<>>)

\* A variant order that always starts with function.
SearchOrderFunctionFirst(prefer_function, dptype) ==
    <<"function", "status_range">>
    \o (IF dptype = NoDptype THEN <<"status">> ELSE <<>>)

\* The search order (lines 205-212).
SearchOrder(prefer_function, dptype) ==
    (IF prefer_function THEN <<"function", "status_range">>
     ELSE <<"status_range", "function">>)
    \o (IF dptype = NoDptype THEN <<"status">> ELSE <<>>)

\* The nested loops of lines 214-247, from candidate i and dictionary j on.
RECURSIVE Search(_, _, _, _, _, _)
Search(dev, dpcodes, order, dptype, i, j) ==
    IF i > Len(dpcodes) THEN Return(None)
    ELSE IF j > Len(order) THEN Search(dev, dpcodes, order, dptype, i + 1, 1)
    ELSE
      LET dpcode == dpcodes[i]
          dict == dev[order[j]]
          next == Search(dev, dpcodes, order, dptype, i, j + 1)
      IN
      IF dpcode \notin DOMAIN dict THEN next
      ELSE IF dptype = ENUM /\ dict[dpcode].type = ENUM THEN
          LET enum_type == EnumFromJson(dpcode, dict[dpcode].values) IN
          IF enum_type.st = "raise" THEN enum_type
          ELSE IF enum_type.val = None THEN next
          ELSE enum_type
      ELSE IF dptype = INTEGER /\ dict[dpcode].type = INTEGER THEN
          LET integer_type == IntegerFromJson(dpcode, dict[dpcode].values) IN
          IF integer_type.st = "raise" THEN integer_type
          ELSE IF integer_type.val = None THEN next
          ELSE integer_type
      ELSE IF dptype \notin {ENUM, INTEGER} THEN
          Return([cls |-> "DPCode", dpcode |-> dpcode])
      ELSE next

find_dpcode(dev, dpcodes, prefer_function, dptype) ==
    IF dpcodes.cls = "None" THEN Return(None)
    ELSE Search(dev, dpcodes.codes, SearchOrder(prefer_function, dptype), dptype, 1, 1)

\* A variant order that does not look at prefer_function.
GetDptypeOrderIgnoringPreference(prefer_function) == <<"status_range", "function">>

\* get_dptype (lines 249-263): the order never holds status.
GetDptypeOrder(prefer_function) ==
    IF prefer_function THEN <<"function", "status_range">>
    ELSE <<"status_range", "function">>

RECURSIVE TypeSearch(_, _, _, _)
TypeSearch(dev, dpcode, order, j) ==
    IF j > Len(order) THEN Return(None)
    ELSE IF dpcode \in DOMAIN dev[order[j]]
         THEN Return([cls |-> "DPType", tag |-> dev[order[j]][dpcode].type])
         ELSE TypeSearch(dev, dpcode, order, j + 1)

get_dptype(dev, dpcode, prefer_function) ==
    IF dpcode.cls = "None" THEN Return(None)
    ELSE TypeSearch(dev, dpcode.code, GetDptypeOrder(prefer_function), 1)

(***************************************************************************)
(* The resolver's state machine.  A device record is drawn once (the       *)
(* integration only reads it); one lookup is then applied to it.           *)
(***************************************************************************)
EnumDocA == [range |-> <<"a", "b">>]
EnumDocB == [range |-> <<"c">>]
IntDocA == [min |-> Q(0, 1), max |-> Q(100, 1), scale |-> Q(1, 1), step |-> Q(1, 1)]
IntDocNoStep == [min |-> Q(0, 1), max |-> Q(100, 1)]

Descriptor(t, v) == [type |-> t, values |-> v]

\* The descriptors a drawn device record may hold.
Descriptors ==
    { Descriptor(ENUM, Document(EnumDocA)),
      Descriptor(ENUM, Document(EnumDocB)),
      Descriptor(ENUM, Document(NoDoc)),
      Descriptor(ENUM, EmptyText),
      Descriptor(INTEGER, Document(IntDocA)),
      Descriptor(INTEGER, Document(IntDocNoStep)),
      Descriptor(INTEGER, MalformedText),
      Descriptor(BOOL, Document(NoDoc)) }

PartialFunctions(D, R) == UNION { [S -> R] : S \in SUBSET D }

\* Candidate tuples: the duplicate-free tuples over Codes.
RECURSIVE TuplesOver(_)
TuplesOver(S) ==
    {<<>>} \cup UNION { { <<c>> \o t : t \in TuplesOver(S \ {c}) } : c \in S }

DpcodesArgs == {DpcodesNone} \cup { DpcodesTuple(t) : t \in TuplesOver(Codes) }
DpcodeArgs == {None} \cup { [cls |-> "DPCode", code |-> c] : c \in Codes }
DptypeArgs == {NoDptype} \cup DPType

Idle == [op |-> "idle"]

InitResolver ==
    /\ device \in [status_range : PartialFunctions(Codes, Descriptors),
                   function : PartialFunctions(Codes, Descriptors),
                   status : PartialFunctions(Codes, {TRUE})]
    /\ lookup = Idle

FindDpcode ==
    /\ lookup = Idle
    /\ \E dpcodes \in DpcodesArgs, prefer_function \in BOOLEAN, dptype \in DptypeArgs :
         lookup' = [op |-> "find_dpcode", dpcodes |-> dpcodes,
                    prefer_function |-> prefer_function, dptype |-> dptype,
                    result |-> find_dpcode(device, dpcodes, prefer_function, dptype)]
    /\ UNCHANGED <<device, schemaVars, commandVars, electricityVars>>

GetDptype ==
    /\ lookup = Idle
    /\ \E dpcode \in DpcodeArgs, prefer_function \in BOOLEAN :
         lookup' = [op |-> "get_dptype", dpcode |-> dpcode,
                    prefer_function |-> prefer_function,
                    result |-> get_dptype(device, dpcode, prefer_function)]
    /\ UNCHANGED <<device, schemaVars, commandVars, electricityVars>>

(***************************************************************************)
(* Resolver claims.                                                        *)
(***************************************************************************)
IsFind == lookup.op = "find_dpcode" /\ lookup.dpcodes.cls = "tuple"
IsTyped == lookup.dptype \in {ENUM, INTEGER}
FoundCode(c) == Return([cls |-> "DPCode", dpcode |-> c])

\* The schema a descriptor parses to for a typed query, by the parser of that type.
ParseAs(dptype, c, desc) ==
    IF dptype = ENUM THEN EnumFromJson(c, desc.values) ELSE IntegerFromJson(c, desc.values)

\* A descriptor that a typed query accepts: the requested declared type and a
\* values blob that parses to a non-empty schema.
Parseable(dptype, c, dict) ==
    /\ c \in DOMAIN dict
    /\ dict[c].type = dptype
    /\ ParseAs(dptype, c, dict[c]).st = "ok"
    /\ ParseAs(dptype, c, dict[c]).val # None

\* The dictionary consulted first and second for the recorded call.
FirstDict == IF lookup.prefer_function THEN device.function ELSE device.status_range
SecondDict == IF lookup.prefer_function THEN device.status_range ELSE device.function

\* C1: for a single candidate code, status_range is consulted before function
\* (function before status_range under prefer_function) and status only for a
\* bare-code query, last: a bare query finds a code present in any of the three
\* dictionaries, a typed query does not find a code present only in status, and
\* a code parseable in both capability dictionaries is parsed from the first.
C1_SearchOrder ==
    (IsFind /\ Len(lookup.dpcodes.codes) = 1) =>
      LET c == lookup.dpcodes.codes[1] IN
      /\ lookup.dptype = NoDptype =>
           lookup.result =
             IF c \in DOMAIN device.status_range \cup DOMAIN device.function
                      \cup DOMAIN device.status
             THEN FoundCode(c) ELSE Return(None)
      /\ (IsTyped /\ c \notin DOMAIN device.status_range
                  /\ c \notin DOMAIN device.function) =>
           lookup.result = Return(None)
      /\ (IsTyped /\ Parseable(lookup.dptype, c, FirstDict)) =>
           lookup.result = ParseAs(lookup.dptype, c, FirstDict[c])
      /\ (IsTyped /\ c \notin DOMAIN FirstDict
                  /\ Parseable(lookup.dptype, c, SecondDict)) =>
           lookup.result = ParseAs(lookup.dptype, c, SecondDict[c])

\* C1 witness: a typed ENUM query for a code with different parseable ENUM
\* descriptors in status_range and in function returned the status_range one.
C1_Witness ==
    /\ IsFind /\ lookup.dpcodes.codes = <<"x">>
    /\ lookup.dptype = ENUM /\ ~lookup.prefer_function
    /\ Parseable(ENUM, "x", device.status_range)
    /\ Parseable(ENUM, "x", device.function)
    /\ device.status_range["x"] # device.function["x"]
    /\ lookup.result.st = "ok"
    /\ lookup.result.val.range = device.status_range["x"].values.doc.range

\* A candidate that resolves for the recorded call: present in some dictionary
\* of the search order (bare query), or parseable as the requested type in
\* status_range or function (typed query).
Resolves(c) ==
    IF IsTyped
    THEN \/ Parseable(lookup.dptype, c, device.status_range)
         \/ Parseable(lookup.dptype, c, device.function)
    ELSE \E k \in 1..Len(SearchOrder(lookup.prefer_function, lookup.dptype)) :
           c \in DOMAIN device[SearchOrder(lookup.prefer_function, lookup.dptype)[k]]

\* The position of the earliest resolving candidate, 0 when there is none.
EarliestResolving ==
    LET codes == lookup.dpcodes.codes
        hits == { i \in 1..Len(codes) : Resolves(codes[i]) }
    IN IF hits = {} THEN 0 ELSE CHOOSE i \in hits : \A k \in hits : i <= k

\* C2: candidates are iterated before dictionaries: whenever some candidate
\* resolves, the result belongs to the earliest candidate of the tuple that
\* resolves in any dictionary of the search order, and None is returned only if
\* no candidate resolves.
C2_EarliestCandidateWins ==
    (IsFind /\ lookup.dptype \in {NoDptype, ENUM, INTEGER}) =>
      /\ EarliestResolving # 0 =>
           /\ lookup.result.st = "ok"
           /\ lookup.result.val # None
           /\ lookup.result.val.dpcode = lookup.dpcodes.codes[EarliestResolving]
      /\ lookup.result = Return(None) => EarliestResolving = 0

\* The calls that return do give the earliest resolving candidate, or None
\* when there is none: C2 fails only where a parser raises.
ReturningCallsGiveEarliestCandidate ==
    (IsFind /\ lookup.dptype \in {NoDptype, ENUM, INTEGER} /\ lookup.result.st = "ok") =>
      IF EarliestResolving = 0
      THEN lookup.result.val = None
      ELSE /\ lookup.result.val # None
           /\ lookup.result.val.dpcode = lookup.dpcodes.codes[EarliestResolving]

\* An empty values blob: zero-length text, or an empty JSON document.
EmptyBlob(v) == v = EmptyText \/ v = Document(NoDoc)

\* The device record without the status_range descriptors of the requested
\* type whose values blob is empty.
WithoutEmptyStatusRange(dev, dptype) ==
    LET keep == { c \in DOMAIN dev.status_range :
                    ~(dev.status_range[c].type = dptype
                      /\ EmptyBlob(dev.status_range[c].values)) }
    IN [dev EXCEPT !.status_range = [c \in keep |-> dev.status_range[c]]]

\* C3: in a typed query a status_range descriptor of the requested type with an
\* empty values blob is skipped: the call gives what it gives on the device
\* record without that descriptor (the next dictionary, then the next candidate).
C3_EmptyBlobSkipped ==
    (IsFind /\ IsTyped) =>
      lookup.result = find_dpcode(WithoutEmptyStatusRange(device, lookup.dptype),
                                  lookup.dpcodes, lookup.prefer_function, lookup.dptype)

\* The same for the empty JSON document alone, which the code does skip.
EmptyDocumentSkipped ==
    (IsFind /\ IsTyped) =>
      LET keep == { c \in DOMAIN device.status_range :
                      ~(device.status_range[c].type = lookup.dptype
                        /\ device.status_range[c].values = Document(NoDoc)) }
          dev == [device EXCEPT !.status_range = [c \in keep |-> device.status_range[c]]]
      IN lookup.result = find_dpcode(dev, lookup.dpcodes, lookup.prefer_function,
                                     lookup.dptype)

\* C4: find_dpcode never propagates a schema error: it ends with a match or
\* with None, whatever the values blobs of the device record are.
C4_NeverPropagates ==
    lookup.op = "find_dpcode" => lookup.result.st = "ok"

\* The dictionary-order search of get_dptype, written out: the type tag found
\* in the first of the two capability dictionaries that holds the code.
TagOfFirst(c) ==
    IF c \in DOMAIN FirstDict THEN Return([cls |-> "DPType", tag |-> FirstDict[c].type])
    ELSE IF c \in DOMAIN SecondDict
         THEN Return([cls |-> "DPType", tag |-> SecondDict[c].type])
         ELSE Return(None)

BareFind(c) ==
    find_dpcode(device, DpcodesTuple(<<c>>), lookup.prefer_function, NoDptype)

IsGetDptype == lookup.op = "get_dptype" /\ lookup.dpcode.cls = "DPCode"

\* C5 as stated: get_dptype returns the type tag of the descriptor in the first
\* dictionary of find_dpcode's (bare-code) search order that holds the code,
\* and None exactly when the bare-code find_dpcode query returns None.
C5_SameSearchAsFind ==
    IsGetDptype =>
      /\ lookup.result = TagOfFirst(lookup.dpcode.code)
      /\ lookup.result = Return(None) <=> BareFind(lookup.dpcode.code) = Return(None)

\* C5 amended: get_dptype searches [status_range, function] ([function,
\* status_range] under prefer_function) and never status: it returns the tag
\* of the first of the two that holds the code, and None exactly when neither
\* holds it, which is when the bare-code find_dpcode query returns None or
\* finds the code in status alone.
C5_SearchWithoutStatus ==
    IsGetDptype =>
      LET c == lookup.dpcode.code
          inCaps == c \in DOMAIN device.status_range \cup DOMAIN device.function
      IN
      /\ lookup.result = TagOfFirst(c)
      /\ lookup.result = Return(None) <=> ~inCaps
      /\ BareFind(c) = Return(None) => lookup.result = Return(None)
      /\ (lookup.result = Return(None) /\ BareFind(c) # Return(None)) =>
           /\ c \in DOMAIN device.status
           /\ BareFind(c) = FoundCode(c)

\* C5 witness: under prefer_function a code with different type tags in the two
\* capability dictionaries got the tag of its function descriptor.
C5_Witness ==
    /\ IsGetDptype /\ lookup.prefer_function
    /\ lookup.dpcode.code \in DOMAIN device.status_range \cap DOMAIN device.function
    /\ device.status_range[lookup.dpcode.code].type = ENUM
    /\ device.function[lookup.dpcode.code].type = INTEGER
    /\ lookup.result = Return([cls |-> "DPType", tag |-> INTEGER])

\* The class of the schema a typed query of the given type returns.
SchemaClass(dptype) == IF dptype = ENUM THEN "EnumTypeData" ELSE "IntegerTypeData"

\* The first capability dictionary of the recorded call's order that holds c.
FirstHolding(c) == IF c \in DOMAIN FirstDict THEN FirstDict ELSE SecondDict

\* C15: get_dptype and typed find_dpcode agree.  When get_dptype returns a tag
\* T in {ENUM, INTEGER} and the values blob of the descriptor it read parses
\* to a non-empty schema, find_dpcode for the same code and prefer_function
\* with dptype = T returns the schema of type T parsed from that descriptor;
\* and a typed find_dpcode query (dptype ENUM or INTEGER) never returns a bare
\* code, and a schema it returns is parsed from a descriptor of a candidate
\* whose declared type is the requested one.
C15_TypedAgreement ==
    /\ (IsGetDptype /\ lookup.result.val.cls = "DPType") =>
         LET c == lookup.dpcode.code
             T == lookup.result.val.tag
             typed == find_dpcode(device, DpcodesTuple(<<c>>), lookup.prefer_function, T)
         IN (T \in {ENUM, INTEGER} /\ Parseable(T, c, FirstHolding(c))) =>
              /\ typed = ParseAs(T, c, FirstHolding(c)[c])
              /\ typed.val.cls = SchemaClass(T)
    /\ (IsFind /\ IsTyped /\ lookup.result.st = "ok") =>
         /\ lookup.result.val.cls \in {"None", SchemaClass(lookup.dptype)}
         /\ lookup.result.val # None =>
              \E i \in 1..Len(lookup.dpcodes.codes) :
                \E key \in {"status_range", "function"} :
                  LET c == lookup.dpcodes.codes[i] IN
                  /\ c \in DOMAIN device[key]
                  /\ device[key][c].type = lookup.dptype
                  /\ lookup.result = ParseAs(lookup.dptype, c, device[key][c])

\* C15 witness: get_dptype returned ENUM for a code whose status_range
\* descriptor parses, while function holds a different parseable ENUM
\* descriptor for it.
C15_Witness ==
    /\ IsGetDptype /\ ~lookup.prefer_function
    /\ lookup.result = Return([cls |-> "DPType", tag |-> ENUM])
    /\ Parseable(ENUM, lookup.dpcode.code, device.status_range)
    /\ Parseable(ENUM, lookup.dpcode.code, device.function)
    /\ device.status_range[lookup.dpcode.code] # device.function[lookup.dpcode.code]

\* A typed query that returned a schema.
TypedQueryReturnedSchema ==
    /\ IsFind /\ lookup.dptype = INTEGER /\ lookup.result.st = "ok"
    /\ lookup.result.val.cls = "IntegerTypeData"

(***************************************************************************)
(* Python floats (IEEE 754 binary64, round to nearest, ties to even).      *)
(*                                                                         *)
(* A float is [sign, m, e]: the value sign * m * 2^e, where the mantissa m *)
(* is a wide natural number of exactly Precision bits; zero is sign 0.     *)
(* Only what scale_value and scale_value_back compute is modelled: a float *)
(* times or divided by 10 ** scale, which is a small integer exactly       *)
(* representable as a float, and int().                                    *)
(*                                                                         *)
(* A wide natural is a tuple of four limbs, most significant first, each   *)
(* below LimbBase = 2^18: 72 bits, with every intermediate product below   *)
(* 2^31.                                                                   *)
(***************************************************************************)
Precision == 53

RECURSIVE Pow2(_)
Pow2(n) == IF n <= 0 THEN 1 ELSE 2 * Pow2(n - 1)

RECURSIVE Pow10(_)
Pow10(n) == IF n <= 0 THEN 1 ELSE 10 * Pow10(n - 1)

LimbBits == 18
LimbBase == Pow2(LimbBits)
Limbs == 1..4

WZero == <<0, 0, 0, 0>>
Limb(w, i) == IF i \in Limbs THEN w[i] ELSE 0

\* A natural below 2^31 as a wide natural, and back.
WOfNat(n) == <<0, 0, n \div LimbBase, n % LimbBase>>
WToNat(w) == w[3] * LimbBase + w[4]

\* The number of bits of a natural below 2^LimbBits, and of a wide natural.
BitLen(n) == CHOOSE k \in 0..LimbBits : n < Pow2(k) /\ (k = 0 \/ n >= Pow2(k - 1))
WBitLen(w) ==
    IF w = WZero THEN 0
    ELSE LET i == CHOOSE i \in Limbs : w[i] # 0 /\ \A k \in Limbs : k < i => w[k] = 0
         IN BitLen(w[i]) + LimbBits * (4 - i)

\* w shifted right by x bits (floor), and left by x bits (modulo 2^72).
WShr(w, x) ==
    LET j == x \div LimbBits
        k == x % LimbBits
    IN [i \in Limbs |->
          Limb(w, i - j) \div Pow2(k)
          + (Limb(w, i - j - 1) % Pow2(k)) * Pow2(LimbBits - k)]

WShl(w, x) ==
    LET j == x \div LimbBits
        k == x % LimbBits
    IN [i \in Limbs |->
          (Limb(w, i + j) % Pow2(LimbBits - k)) * Pow2(k)
          + Limb(w, i + j + 1) \div Pow2(LimbBits - k)]

\* w * d and w + 1, for d below 2^12.
WMul(w, d) ==
    LET t4 == w[4] * d
        t3 == w[3] * d + t4 \div LimbBase
        t2 == w[2] * d + t3 \div LimbBase
        t1 == w[1] * d + t2 \div LimbBase
    IN <<t1, t2 % LimbBase, t3 % LimbBase, t4 % LimbBase>>

WInc(w) ==
    LET t4 == w[4] + 1
        t3 == w[3] + t4 \div LimbBase
        t2 == w[2] + t3 \div LimbBase
        t1 == w[1] + t2 \div LimbBase
    IN <<t1, t2 % LimbBase, t3 % LimbBase, t4 % LimbBase>>

\* Long division of w by d, 0 < d < 2^12: quotient and remainder.
WDiv(w, d) ==
    LET c1 == w[1]
        c2 == (c1 % d) * LimbBase + w[2]
        c3 == (c2 % d) * LimbBase + w[3]
        c4 == (c3 % d) * LimbBase + w[4]
    IN [q |-> <<c1 \div d, c2 \div d, c3 \div d, c4 \div d>>, rem |-> c4 % d]

\* w1 <= w2.
WLeq(w1, w2) ==
    \/ w1 = w2
    \/ \E i \in Limbs : w1[i] < w2[i] /\ \A k \in Limbs : k < i => w1[k] = w2[k]

FloatZero == [cls |-> "float", sign |-> 0, m |-> WZero, e |-> 0]

\* The float nearest to sign * w * 2^e (+ a fraction of w's last place when
\* sticky), ties to even.
RoundToFloat(sign, w, sticky, e) ==
    LET len == WBitLen(w) IN
    IF len = 0 THEN FloatZero
    ELSE IF len <= Precision
    THEN [cls |-> "float", sign |-> sign, m |-> WShl(w, Precision - len),
          e |-> e - (Precision - len)]
    ELSE
      LET drop == len - Precision
          kept == WShr(w, drop)
          guard == WShr(w, drop - 1)[4] % 2
          rest == sticky \/ WShl(WShr(w, drop - 1), drop - 1) # w
          up == guard = 1 /\ (rest \/ kept[4] % 2 = 1)
          m1 == IF up THEN WInc(kept) ELSE kept
      IN IF WBitLen(m1) > Precision
         THEN [cls |-> "float", sign |-> sign, m |-> WShr(m1, 1), e |-> e + drop + 1]
         ELSE [cls |-> "float", sign |-> sign, m |-> m1, e |-> e + drop]

\* float(n) for an integer n (exact below 2^Precision).
FloatOfInt(n) ==
    RoundToFloat(IF n < 0 THEN -1 ELSE 1, WOfNat(IF n < 0 THEN -n ELSE n), FALSE, 0)

\* f * d, d a natural number below 2^12 (exactly representable as a float).
FloatMul(f, d) ==
    IF f.sign = 0 \/ d = 0 THEN FloatZero
    ELSE RoundToFloat(f.sign, WMul(f.m, d), FALSE, f.e)

\* f / d, d a positive natural number below 2^10.  The dividend gets 12 more
\* bits, so that the quotient keeps more than Precision + 1 bits.
FloatDiv(f, d) ==
    IF f.sign = 0 THEN FloatZero
    ELSE LET r == WDiv(WShl(f.m, 12), d)
         IN RoundToFloat(f.sign, r.q, r.rem # 0, f.e - 12)

\* int(f): truncation toward zero, for |f| < 2^31.
IntOfFloat(f) ==
    IF f.sign = 0 THEN 0
    ELSE IF f.e >= 0 THEN f.sign * WToNat(f.m) * Pow2(f.e)
    ELSE IF -f.e >= 4 * LimbBits THEN 0
    ELSE f.sign * WToNat(WShr(f.m, -f.e))

\* w + d for a natural d below LimbBase.
WAddSmall(w, d) ==
    LET t4 == w[4] + d
        t3 == w[3] + t4 \div LimbBase
        t2 == w[2] + t3 \div LimbBase
        t1 == w[1] + t2 \div LimbBase
    IN <<t1, t2 % LimbBase, t3 % LimbBase, t4 % LimbBase>>

(***************************************************************************)
(* IntegerTypeData (base.py 20-73).  A Python number is an int            *)
(* [cls "int", n] or a float; an int operand of a float operation is       *)
(* converted to float first.  scale is float(parsed["scale"]); the model   *)
(* draws it from the non-negative integers, so 10 ** scale is Pow10.       *)
(***************************************************************************)
PyInt(n) == [cls |-> "int", n |-> n]
AsFloat(v) == IF v.cls = "int" THEN FloatOfInt(v.n) ELSE v

\* float(x) of a JSON number p/q whose denominator is a power of two (exact).
FloatOfQ(a) == FloatDiv(FloatOfInt(a[1]), a[2])

TenToScale(self) == Pow10(IntOf(self.scale))

scale_value(self, value) == FloatDiv(AsFloat(value), TenToScale(self))

scale_value_back(self, value) ==
    PyInt(IntOfFloat(FloatMul(AsFloat(value), TenToScale(self))))

max_scaled(self) == scale_value(self, PyInt(self.max))
min_scaled(self) == scale_value(self, PyInt(self.min))
step_scaled(self) == FloatDiv(FloatOfQ(self.step), TenToScale(self))

(***************************************************************************)
(* remap_value (util.py), in exact rational arithmetic: the linear map of  *)
(* [from_min, from_max] onto [to_min, to_max], the target range traversed  *)
(* downwards under reverse.  The result is a rational <<p, q>>, q > 0.     *)
(***************************************************************************)
remap_value(value, from_min, from_max, to_min, to_max, reverse) ==
    IF from_max = from_min THEN Raise("ZeroDivisionError")
    ELSE LET den == from_max - from_min
             part == (value - from_min) * (to_max - to_min)
             num == IF reverse THEN to_max * den - part ELSE part + to_min * den
         IN Return(IF den > 0 THEN Q(num, den) ELSE Q(-num, -den))

\* A variant with the bounds of the schema exchanged.
remap_value_to_swapped(self, value, to_min, to_max, reverse) ==
    remap_value(value, self.max, self.min, to_min, to_max, reverse)

remap_value_to(self, value, to_min, to_max, reverse) ==
    remap_value(value, self.min, self.max, to_min, to_max, reverse)

remap_value_from(self, value, from_min, from_max, reverse) ==
    remap_value(value, from_min, from_max, self.min, self.max, reverse)

(***************************************************************************)
(* The schema's state machine: a values blob is drawn, from_json parses    *)
(* it, and one computation is applied to the schema: a scale_value /       *)
(* scale_value_back chain, or a remap.                                     *)
(***************************************************************************)
MaxScale == 2
MaxRaw == 30

MinDocs == {Q(0, 1), Q(10, 1), Q(-5, 2)}
MaxDocs == {Q(10, 1), Q(100, 1), Q(25, 2)}
StepDocs == {Q(1, 2), Q(1, 1), Q(5, 2), Q(5, 1)}

IntDoc(mn, mx, sc, st) == [min |-> mn, max |-> mx, scale |-> Q(sc, 1), step |-> st]

SchemaBlobs ==
    { Document(IntDoc(mn, mx, sc, st)) :
        mn \in MinDocs, mx \in MaxDocs, sc \in 0..MaxScale, st \in StepDocs }
    \cup {EmptyText, MalformedText, Document(NoDoc), Document(IntDocNoStep)}

\* The ranges a remap call names as its other side.
OtherRanges == {<<0, 255>>, <<0, 100>>, <<255, 0>>, <<7, 7>>}

Unparsed == [st |-> "unparsed"]
IsSchema == schema.st = "ok" /\ schema.val # None

InitSchema ==
    /\ blob \in SchemaBlobs
    /\ schema = Unparsed
    /\ trip = Idle
    /\ remap = Idle

FromJson ==
    /\ schema = Unparsed
    /\ schema' = IntegerFromJson("x", blob)
    /\ UNCHANGED <<blob, trip, remap, resolverVars, commandVars, electricityVars>>

\* scale_value on a raw integer, or on the raw integer a chain has reached.
ScaleValue ==
    /\ IsSchema /\ remap = Idle
    /\ \/ /\ trip = Idle
          /\ \E r \in (-MaxRaw)..MaxRaw :
               trip' = [op |-> "scale_value", raw |-> PyInt(r),
                        scaled |-> scale_value(schema.val, PyInt(r)), back |-> None]
       \/ /\ trip.op = "scale_value_back" /\ trip.again = None
          /\ trip' = [trip EXCEPT !.again = scale_value(schema.val, trip.raw)]
    /\ UNCHANGED <<blob, schema, remap, resolverVars, commandVars, electricityVars>>

\* scale_value_back on a decimal value k / 10^p (the float nearest to it), or
\* on the scaled value a chain has reached.
ScaleValueBack ==
    /\ IsSchema /\ remap = Idle
    /\ \/ /\ trip = Idle
          /\ \E k \in (-MaxRaw)..MaxRaw, p \in 0..MaxScale :
               LET x == FloatDiv(FloatOfInt(k), Pow10(p)) IN
               trip' = [op |-> "scale_value_back", k |-> k, p |-> p, x |-> x,
                        raw |-> scale_value_back(schema.val, x), again |-> None]
       \/ /\ trip.op = "scale_value" /\ trip.back = None
          /\ trip' = [trip EXCEPT !.back = scale_value_back(schema.val, trip.scaled)]
    /\ UNCHANGED <<blob, schema, remap, resolverVars, commandVars, electricityVars>>

\* The derived properties min_scaled, max_scaled and step_scaled are read.
ReadScaled ==
    /\ IsSchema /\ remap = Idle /\ trip = Idle
    /\ trip' = [op |-> "scaled", min_scaled |-> min_scaled(schema.val),
                max_scaled |-> max_scaled(schema.val),
                step_scaled |-> step_scaled(schema.val)]
    /\ UNCHANGED <<blob, schema, remap, resolverVars, commandVars, electricityVars>>

RemapValueTo ==
    /\ IsSchema /\ remap = Idle /\ trip = Idle
    /\ \E value \in (schema.val.min - 1)..(schema.val.max + 1),
          to \in OtherRanges, reverse \in BOOLEAN :
         remap' = [op |-> "remap_value_to", value |-> value, lo |-> to[1], hi |-> to[2],
                   reverse |-> reverse,
                   result |-> remap_value_to(schema.val, value, to[1], to[2], reverse)]
    /\ UNCHANGED <<blob, schema, trip, resolverVars, commandVars, electricityVars>>

RemapValueFrom ==
    /\ IsSchema /\ remap = Idle /\ trip = Idle
    /\ \E from \in OtherRanges, reverse \in BOOLEAN :
         \E value \in {from[1], from[2], (from[1] + from[2]) \div 2, 3, 50} :
           remap' = [op |-> "remap_value_from", value |-> value, lo |-> from[1],
                     hi |-> from[2], reverse |-> reverse,
                     result |-> remap_value_from(schema.val, value, from[1], from[2],
                                                 reverse)]
    /\ UNCHANGED <<blob, schema, trip, resolverVars, commandVars, electricityVars>>

(***************************************************************************)
(* Schema claims.                                                          *)
(***************************************************************************)
QLeq(a, b) == a[1] * b[2] <= b[1] * a[2]
QEq(a, b) == a[1] * b[2] = b[1] * a[2]
Abs(n) == IF n < 0 THEN -n ELSE n

\* f is a float nearest to n / d (d > 0): |f - n/d| is at most half a unit of
\* f's last place, checked exactly: |2 m d - |n| 2^(1-e)| <= d.
IsNearest(f, n, d) ==
    IF n = 0 THEN f = FloatZero
    ELSE /\ f.sign = (IF n < 0 THEN -1 ELSE 1)
         /\ f.e <= 0
         /\ WBitLen(f.m) = Precision
         /\ LET target == WShl(WOfNat(Abs(n)), 1 - f.e)
                twice == WMul(WShl(f.m, 1), d)
            IN /\ WLeq(twice, WAddSmall(target, d))
               /\ WLeq(target, WAddSmall(twice, d))

\* The spec's example: {"min":0,"max":100,"scale":1,"step":0.5}.
ExampleBlob == Document(IntDoc(Q(0, 1), Q(100, 1), 1, Q(1, 2)))

\* C8: every IntegerTypeData from_json produces has step >= 1 (a parsed step
\* below 1 becomes 1, another is kept), and min_scaled, max_scaled, step_scaled
\* are min, max, step divided by 10^scale (as floats: the nearest float); the
\* example blob gives step 1 and max_scaled 10.0.
C8_StepFloorAndScaled ==
    IsSchema =>
      LET self == schema.val
          d == TenToScale(self)
          parsed == blob.doc.step
      IN
      /\ QLeq(QInt(1), self.step)
      /\ QLess(parsed, QInt(1)) => self.step = QInt(1)
      /\ QLeq(QInt(1), parsed) => self.step = parsed
      /\ trip.op = "scaled" =>
           /\ IsNearest(trip.min_scaled, self.min, d)
           /\ IsNearest(trip.max_scaled, self.max, d)
           /\ IsNearest(trip.step_scaled, self.step[1], self.step[2] * d)
           /\ blob = ExampleBlob => trip.max_scaled = FloatOfInt(10)

\* C8 witness: the example blob is parsed, its step 0.5 became 1 and its
\* max_scaled was read as 10.0.
C8_Witness ==
    /\ blob = ExampleBlob /\ IsSchema
    /\ schema.val.step = QInt(1)
    /\ trip.op = "scaled" /\ trip.max_scaled = FloatOfInt(10)

\* C9: the round-trip law of the integer schema: scale_value(scale_value_back(x))
\* = x for every x that is a multiple of 10^-scale, and
\* scale_value_back(scale_value(r)) = r for every raw integer r.
C9_RoundTrip ==
    /\ (trip.op = "scale_value" /\ trip.back # None) => trip.back = trip.raw
    /\ (trip.op = "scale_value_back" /\ trip.again # None
          /\ trip.p <= IntOf(schema.val.scale)) => trip.again = trip.x

\* The round trip is off by at most one raw unit, toward zero.
RoundTripWithinOne ==
    (trip.op = "scale_value" /\ trip.back # None) =>
      /\ Abs(trip.back.n) <= Abs(trip.raw.n)
      /\ Abs(trip.raw.n) - Abs(trip.back.n) <= 1

\* The direction remap is monotonic in: upwards iff the target range ascends
\* and reverse is off, or descends and reverse is on.
Ascending(lo, hi, reverse) == (lo <= hi) = ~reverse

\* C10: with from_min # from_max, remap is monotonic in the value and takes
\* from_min to to_min and from_max to to_max, the two swapped under reverse;
\* from_min = from_max raises a division-by-zero error; remap_value_to maps
\* from the schema's [min, max] and remap_value_from maps onto it.
C10_Remap ==
    /\ remap.op = "remap_value_to" =>
         LET self == schema.val
             at(v) == remap_value_to(self, v, remap.lo, remap.hi, remap.reverse)
         IN
         IF self.min = self.max THEN remap.result = Raise("ZeroDivisionError")
         ELSE /\ remap.result.st = "ok"
              /\ remap.value = self.min =>
                   QEq(remap.result.val, QInt(IF remap.reverse THEN remap.hi ELSE remap.lo))
              /\ remap.value = self.max =>
                   QEq(remap.result.val, QInt(IF remap.reverse THEN remap.lo ELSE remap.hi))
              /\ \A v2 \in self.min..self.max :
                   (self.min <= remap.value /\ remap.value <= v2) =>
                     IF Ascending(remap.lo, remap.hi, remap.reverse)
                     THEN QLeq(remap.result.val, at(v2).val)
                     ELSE QLeq(at(v2).val, remap.result.val)
    /\ remap.op = "remap_value_from" =>
         LET self == schema.val
             at(v) == remap_value_from(self, v, remap.lo, remap.hi, remap.reverse)
         IN
         IF remap.lo = remap.hi THEN remap.result = Raise("ZeroDivisionError")
         ELSE /\ remap.result.st = "ok"
              /\ remap.value = remap.lo =>
                   QEq(remap.result.val, QInt(IF remap.reverse THEN self.max ELSE self.min))
              /\ remap.value = remap.hi =>
                   QEq(remap.result.val, QInt(IF remap.reverse THEN self.min ELSE self.max))
              /\ \A v2 \in remap.lo..remap.hi :
                   (remap.lo <= remap.value /\ remap.value <= v2) =>
                     IF Ascending(self.min, self.max, remap.reverse)
                     THEN QLeq(remap.result.val, at(v2).val)
                     ELSE QLeq(at(v2).val, remap.result.val)

\* C10 witness: remap_value_to with reverse took the schema's max 100 to the
\* low end 0 of the target range [0, 255].
C10_Witness ==
    /\ remap.op = "remap_value_to" /\ remap.reverse
    /\ schema.val.min = 0 /\ schema.val.max = 100 /\ remap.value = 100
    /\ remap.lo = 0 /\ remap.hi = 255
    /\ remap.result.st = "ok" /\ QEq(remap.result.val, QInt(0))

(***************************************************************************)
(* Command submission (base.py 301-428) and the button (button.py).        *)
(*                                                                         *)
(* A command is a dict [code, value].  A code is a DPCode member, a str or *)
(* an int; a value is a bool, an int or a str.  device_manager.            *)
(* send_commands is the external transport: each call is accepted or       *)
(* rejected (raises), which the model chooses freely at every call.        *)
(***************************************************************************)
Str(s) == [cls |-> "str", s |-> s]
Bool(b) == [cls |-> "bool", b |-> b]
DPCodeMember(name) == [cls |-> "DPCode", name |-> name]
Command(code, value) == [code |-> code, value |-> value]

\* BUTTONS (button.py 23-91): the keys of the buttons of each category.
GateKeys == {"GATE_OPEN", "GATE_CLOSE", "GATE_STOP", "GATE_LOCK"}
ButtonKeys(category) ==
    CASE category = "sd" -> {"RESET_DUSTER_CLOTH", "RESET_EDGE_BRUSH", "RESET_FILTER",
                             "RESET_MAP", "RESET_ROLL_BRUSH"}
      [] category = "hxd" -> {"SWITCH_USB6"}
      [] category = "qt" -> GateKeys
Categories == {"sd", "hxd", "qt"}

\* DPCode.value, for the members a caller of _send_command passes.
DPCodeValue(name) ==
    CASE name = "SWITCH_USB6" -> "switch_usb6"
      [] name = "RESET_MAP" -> "reset_map"
      [] name = "RESET_FILTER" -> "reset_filter"
      [] name = "RESET_DUSTER_CLOTH" -> "reset_duster_cloth"
      [] name = "RESET_EDGE_BRUSH" -> "reset_edge_brush"
      [] name = "RESET_ROLL_BRUSH" -> "reset_roll_brush"

\* str.isdigit and int(str) on the strings of the model.
DigitStrings == {"101", "102", "103", "104", "105", "110"}
isdigit(s) == s \in DigitStrings
IntOfStr(s) ==
    CASE s = "101" -> 101 [] s = "102" -> 102 [] s = "103" -> 103
      [] s = "104" -> 104 [] s = "105" -> 105 [] s = "110" -> 110

\* Lines 325-339: every DPCode code is replaced by its string value, in the
\* caller's dictionaries.
StringCommand(command) ==
    IF command.code.cls = "DPCode"
    THEN [command EXCEPT !.code = Str(DPCodeValue(command.code.name))]
    ELSE command
StringCommands(cmds) == [i \in 1..Len(cmds) |-> StringCommand(cmds[i])]

\* Lines 348-352: every all-digit code is replaced by its integer, in order,
\* in the same dictionaries; an int code has no isdigit and raises
\* AttributeError, which leaves the dictionaries before it converted.
FirstIntCode(cmds) ==
    LET ints == { i \in 1..Len(cmds) : cmds[i].code.cls = "int" }
    IN IF ints = {} THEN 0 ELSE CHOOSE i \in ints : \A k \in ints : i <= k

NumericCommand(command) ==
    IF command.code.cls = "str" /\ isdigit(command.code.s)
    THEN [command EXCEPT !.code = PyInt(IntOfStr(command.code.s))]
    ELSE command

NumericCommands(cmds) ==
    LET stop == FirstIntCode(cmds)
    IN [cmds |-> [i \in 1..Len(cmds) |->
                    IF stop = 0 \/ i < stop THEN NumericCommand(cmds[i]) ELSE cmds[i]],
        raised |-> stop # 0]

\* A variant that converts DPCode codes in every category.
FirstCallCommandsAlwaysStrings(category, cmds) == StringCommands(cmds)

\* The list the first send_commands call of _send_command carries (lines 322-358).
FirstCallCommands(category, cmds) ==
    IF category = "qt" THEN StringCommands(cmds) ELSE cmds

\* A variant that catches in every category.
CatchesAlways(category) == TRUE

\* Whether _send_command catches a failure of send_commands: only the gate
\* branch wraps its calls in try/except (lines 341-356).
Catches(category) == category = "qt"

\* The snake-case name and the short aliases of a command code (lines 381-410).
SnakeCase(command_code) ==
    CASE command_code = "101" -> <<"gate_open", "open", "open_gate">>
      [] command_code = "102" -> <<"gate_close", "close", "close_gate">>
      [] command_code = "103" -> <<"gate_stop", "stop">>
      [] command_code = "104" -> <<"gate_lock", "lock">>
      [] command_code = "110" -> <<"gate_fast_open", "fast_open", "fast_opening">>
      [] OTHER -> <<>>

\* A variant that puts the integer form first.
possible_commands_numeric_first(command_code, value) ==
    (IF isdigit(command_code)
     THEN <<Command(PyInt(IntOfStr(command_code)), value)>> ELSE <<>>)
    \o <<Command(Str(command_code), value)>>
    \o [i \in 1..Len(SnakeCase(command_code)) |->
          Command(Str(SnakeCase(command_code)[i]), value)]

\* possible_commands of _send_gate_command (lines 371-410).
possible_commands(command_code, value) ==
    <<Command(Str(command_code), value)>>
    \o (IF isdigit(command_code)
        THEN <<Command(PyInt(IntOfStr(command_code)), value)>> ELSE <<>>)
    \o [i \in 1..Len(SnakeCase(command_code)) |->
          Command(Str(SnakeCase(command_code)[i]), value)]

\* command_code and try_values of press, by button key (button.py 179-234).
CommandCode(key) ==
    CASE key = "GATE_OPEN" -> "101" [] key = "GATE_CLOSE" -> "102"
      [] key = "GATE_STOP" -> "103" [] key = "GATE_LOCK" -> "104"

TryNames(key) ==
    CASE key = "GATE_OPEN" -> <<"open", "gate_open", "open_gate", "gate_open">>
      [] key = "GATE_CLOSE" -> <<"close", "gate_close", "close_gate", "gate_close">>
      [] key = "GATE_STOP" -> <<"stop", "gate_stop", "stop_gate", "gate_stop">>
      [] key = "GATE_LOCK" -> <<"lock", "gate_lock", "lock_gate", "gate_lock">>

try_values(key) ==
    LET code == CommandCode(key) IN
    << Command(Str(code), Bool(TRUE)), Command(Str(code), PyInt(1)),
       Command(Str(code), Str("1")),
       Command(PyInt(IntOfStr(code)), Bool(TRUE)), Command(PyInt(IntOfStr(code)), PyInt(1)),
       Command(PyInt(IntOfStr(code)), Str("1")) >>
    \o [i \in 1..4 |-> Command(Str(TryNames(key)[i]), Bool(TRUE))]

(***************************************************************************)
(* The command state machine.  One operation is started on the entity      *)
(* (press, _send_command or _send_gate_command) and runs to its end, one   *)
(* send_commands call per step.                                            *)
(***************************************************************************)
MaxCommands == 2

CommandChoices ==
    { Command(c, v) :
        c \in {DPCodeMember("SWITCH_USB6"), Str("101"), Str("open"), PyInt(101)},
        v \in {Bool(TRUE), PyInt(1)} }

CommandLists == UNION { [1..n -> CommandChoices] : n \in 0..MaxCommands }

GateCommandCodes == {"101", "102", "103", "104", "110", "105", "light"}

RunIdle ==
    [op |-> "idle", pc |-> "idle", command_code |-> "", value |-> PyInt(0),
     possible |-> <<>>, gi |-> 0, tries |-> <<>>, ti |-> 0, passed |-> <<>>,
     outcome |-> "none", error |-> 0]

InitCommand ==
    /\ entity \in { [device_id |-> "dev1", category |-> c, key |-> k] :
                      c \in Categories, k \in UNION { ButtonKeys(x) : x \in Categories } }
    /\ entity.key \in ButtonKeys(entity.category)
    /\ run = RunIdle
    /\ calls = <<>>
    /\ commands = <<>>

Call(cmds, ok) == [device_id |-> entity.device_id, commands |-> cmds, ok |-> ok]

\* The operation ends; an error it raises is the one of the send_commands call
\* being made, kept as that call's place in the log.
Done(outcome) ==
    [run EXCEPT !.pc = "done", !.outcome = outcome,
                !.error = IF outcome = "raised" THEN Len(calls) + 1 ELSE 0]

InGateLoop == run.op = "press" /\ entity.category = "qt"

\* A variant in which press goes on to the next format whatever the outcome.
AfterSendCommandKeepsTrying(result, cmds) ==
    IF InGateLoop /\ run.ti < Len(run.tries)
    THEN [run |-> [run EXCEPT !.ti = @ + 1, !.pc = "send_first"],
          commands |-> <<run.tries[run.ti + 1]>>]
    ELSE [run |-> Done(IF InGateLoop THEN "returned" ELSE result), commands |-> cmds]

\* _send_command has ended (returned or raised) with the dictionaries cmds:
\* the operation ends, except in press's loop over try_values (button.py
\* 252-265), which returns at the first format that does not raise, goes on
\* to the next format after one that raises, and only logs the last error.
AfterSendCommand(result, cmds) ==
    IF InGateLoop /\ result = "raised" /\ run.ti < Len(run.tries)
    THEN [run |-> [run EXCEPT !.ti = @ + 1, !.pc = "send_first"],
          commands |-> <<run.tries[run.ti + 1]>>]
    ELSE [run |-> Done(IF InGateLoop THEN "returned" ELSE result), commands |-> cmds]

\* press (button.py 164-271).  Every button of a gate has one of the four
\* gate keys, so command_code is always set on a gate.
Press ==
    /\ run.pc = "idle"
    /\ IF entity.category = "qt"
       THEN /\ run' = [run EXCEPT !.op = "press", !.pc = "gate", !.gi = 1,
                         !.command_code = CommandCode(entity.key), !.value = PyInt(1),
                         !.possible = possible_commands(CommandCode(entity.key), PyInt(1)),
                         !.tries = try_values(entity.key)]
            /\ commands' = commands
       ELSE /\ commands' = <<Command(DPCodeMember(entity.key), Bool(TRUE))>>
            /\ run' = [run EXCEPT !.op = "press", !.pc = "send_first",
                         !.passed = <<Command(DPCodeMember(entity.key), Bool(TRUE))>>]
    /\ UNCHANGED <<entity, calls, resolverVars, schemaVars, electricityVars>>

\* _send_command called by another platform with a command list.
SendCommand ==
    /\ run.pc = "idle"
    /\ \E cmds \in CommandLists :
         /\ commands' = cmds
         /\ run' = [run EXCEPT !.op = "_send_command", !.pc = "send_first",
                      !.passed = cmds]
    /\ UNCHANGED <<entity, calls, resolverVars, schemaVars, electricityVars>>

\* _send_gate_command called directly (base.py 360-410).
SendGateCommand ==
    /\ run.pc = "idle"
    /\ \E command_code \in GateCommandCodes, value \in {PyInt(1), PyInt(0)} :
         IF entity.category # "qt"
         THEN run' = [Done("returned") EXCEPT !.op = "_send_gate_command",
                        !.command_code = command_code, !.value = value]
         ELSE run' = [run EXCEPT !.op = "_send_gate_command", !.pc = "gate", !.gi = 1,
                        !.command_code = command_code, !.value = value,
                        !.possible = possible_commands(command_code, value)]
    /\ UNCHANGED <<entity, calls, commands, resolverVars, schemaVars, electricityVars>>

\* One pass of the loop of _send_gate_command (base.py 412-428): the next
\* format is sent alone; the first accepted one ends the call, and after the
\* last rejected one the last error is raised (press catches it and starts
\* on try_values).
GateAttempt ==
    /\ run.pc = "gate"
    /\ \E ok \in BOOLEAN :
         /\ calls' = Append(calls, Call(<<run.possible[run.gi]>>, ok))
         /\ IF ok
            THEN run' = Done("returned") /\ commands' = commands
            ELSE IF run.gi < Len(run.possible)
            THEN run' = [run EXCEPT !.gi = @ + 1] /\ commands' = commands
            ELSE IF run.op = "press"
            THEN /\ run' = [run EXCEPT !.pc = "send_first", !.ti = 1]
                 /\ commands' = <<run.tries[1]>>
            ELSE run' = Done("raised") /\ commands' = commands
    /\ UNCHANGED <<entity, resolverVars, schemaVars, electricityVars>>

\* The first send_commands call of _send_command (base.py 322-358), with what
\* follows its rejection on a gate: the numeric conversion of lines 346-352.
FirstAttempt ==
    /\ run.pc = "send_first"
    /\ \E ok \in BOOLEAN :
         LET sent == FirstCallCommands(entity.category, commands)
             numeric == NumericCommands(sent)
             after == IF ok THEN AfterSendCommand("returned", sent)
                      ELSE IF ~Catches(entity.category)
                      THEN AfterSendCommand("raised", sent)
                      ELSE IF numeric.raised
                      THEN AfterSendCommand("returned", numeric.cmds)
                      ELSE [run |-> [run EXCEPT !.pc = "send_second"],
                            commands |-> numeric.cmds]
         IN /\ calls' = Append(calls, Call(sent, ok))
            /\ run' = after.run
            /\ commands' = after.commands
    /\ UNCHANGED <<entity, resolverVars, schemaVars, electricityVars>>

\* The second send_commands call of _send_command on a gate (line 354): its
\* failure is logged and not raised.
SecondAttempt ==
    /\ run.pc = "send_second"
    /\ \E ok \in BOOLEAN :
         LET after == AfterSendCommand("returned", commands)
         IN /\ calls' = Append(calls, Call(commands, ok))
            /\ run' = after.run
            /\ commands' = after.commands
    /\ UNCHANGED <<entity, resolverVars, schemaVars, electricityVars>>

(***************************************************************************)
(* Command claims.                                                         *)
(***************************************************************************)
SubmissionDone == run.op = "_send_command" /\ run.pc = "done"

AllCallsFailed == Len(calls) > 0 /\ \A i \in 1..Len(calls) : ~calls[i].ok

HasIntCode(cmds) == \E i \in 1..Len(cmds) : cmds[i].code.cls = "int"

\* C6 (as stated): for every category and every command list, _send_command
\* makes a send_commands call with the entity's device id and a list equal to
\* the passed one in code and value, the type of the code included, and leaves
\* the caller's dictionaries unmodified.
C6_Verbatim ==
    SubmissionDone =>
        /\ \E i \in 1..Len(calls) :
             calls[i].device_id = entity.device_id /\ calls[i].commands = run.passed
        /\ commands = run.passed

\* C6 (amended): off a gate _send_command makes exactly one call, carrying the
\* entity's device id and the passed list unchanged, and leaves the caller's
\* dictionaries alone.  On a gate (category qt) the first call carries the
\* passed list with every DPCode code replaced by its string value; a second
\* call is made exactly when the first is rejected and no code is an int, and
\* it carries that list with every all-digit string code replaced by its
\* integer; the caller's dictionaries end up as the last conversion left them.
C6_VerbatimOffGate ==
    SubmissionDone =>
        /\ \A i \in 1..Len(calls) : calls[i].device_id = entity.device_id
        /\ IF entity.category # "qt"
           THEN /\ Len(calls) = 1
                /\ calls[1].commands = run.passed
                /\ commands = run.passed
           ELSE LET strings == StringCommands(run.passed)
                    numeric == NumericCommands(strings).cmds
                IN /\ Len(calls) \in {1, 2}
                   /\ calls[1].commands = strings
                   /\ Len(calls) = 2 <=> (~calls[1].ok /\ ~HasIntCode(run.passed))
                   /\ Len(calls) = 2 => calls[2].commands = numeric
                   /\ commands = IF calls[1].ok THEN strings ELSE numeric

\* A gate submission whose first call is rejected: the DPCode code went out as
\* a string, the digit code as an integer in the second call.
C6_Witness ==
    /\ SubmissionDone /\ entity.category = "qt"
    /\ run.passed = <<Command(DPCodeMember("SWITCH_USB6"), Bool(TRUE)),
                      Command(Str("101"), PyInt(1))>>
    /\ Len(calls) = 2
    /\ calls[2].commands = <<Command(Str(DPCodeValue("SWITCH_USB6")), Bool(TRUE)),
                             Command(PyInt(101), PyInt(1))>>
    /\ commands = calls[2].commands

\* C7 (as stated): whenever every send_commands call made during a command
\* submission (_send_command, or a button press) fails, the failure is raised
\* to the caller, for every device category.
C7_Propagates ==
    (run.op \in {"_send_command", "press"} /\ run.pc = "done" /\ AllCallsFailed)
        => run.outcome = "raised"

\* C7 (amended): when every send_commands call of a submission or a press
\* fails, the failure is raised to the caller exactly when the device is not a
\* gate; on a gate (category qt) the operation returns normally.
C7_PropagatesOffGate ==
    (run.op \in {"_send_command", "press"} /\ run.pc = "done" /\ AllCallsFailed)
        => (run.outcome = "raised" <=> entity.category # "qt")

\* A press on a gate all of whose calls were rejected: the formats of
\* _send_gate_command, then the first entry of try_values as a string and as a
\* number; the press has returned.
C7_Witness ==
    /\ run.op = "press" /\ run.pc = "done" /\ entity.category = "qt"
    /\ AllCallsFailed
    /\ Len(calls) = Len(run.possible) + 2
    /\ run.outcome = "returned"

\* The same failure off a gate is raised.
RaisedOffGate ==
    /\ run.op = "press" /\ run.pc = "done" /\ entity.category = "sd"
    /\ AllCallsFailed
    /\ run.outcome = "raised"

(***************************************************************************)
(* Gate claims.                                                            *)
(***************************************************************************)
GatePressDone == run.op = "press" /\ run.pc = "done" /\ entity.category = "qt"

\* _send_gate_command has failed for all of its formats.
GateFormatsFailed ==
    /\ Len(calls) >= Len(run.possible)
    /\ \A i \in 1..Len(run.possible) : ~calls[i].ok

\* The calls press made after _send_gate_command.
TryCalls == SubSeq(calls, Len(run.possible) + 1, Len(calls))

\* C12: when _send_gate_command has failed for all of its formats, press sends
\* the entries of try_values one after another in list order, goes on to the
\* next entry whenever the transport rejects one, and stops at the first one
\* the transport accepts; so an entry is left unsent only after an accepted one.
C12_TryValuesInOrder ==
    (GatePressDone /\ GateFormatsFailed) =>
        /\ Len(TryCalls) \in 1..Len(run.tries)
        /\ \A i \in 1..Len(TryCalls) : TryCalls[i].commands = <<run.tries[i]>>
        /\ \A i \in 1..(Len(TryCalls) - 1) : ~TryCalls[i].ok
        /\ TryCalls[Len(TryCalls)].ok \/ Len(TryCalls) = Len(run.tries)

\* What press does after _send_gate_command has failed: it sends the first
\* entry of try_values, once more with a numeric code if that is rejected,
\* and returns, whatever the transport answered.
TryValuesStopAtFirstEntry ==
    (GatePressDone /\ GateFormatsFailed) =>
        /\ Len(TryCalls) \in {1, 2}
        /\ TryCalls[1].commands = <<run.tries[1]>>
        /\ Len(TryCalls) = 2 <=> ~TryCalls[1].ok
        /\ Len(TryCalls) = 2 => TryCalls[2].commands = <<run.tries[4]>>
        /\ run.outcome = "returned"

\* A press all of whose calls were rejected has returned without sending the
\* third entry of try_values.
ThirdEntryNeverSent ==
    /\ GatePressDone /\ GateFormatsFailed /\ AllCallsFailed
    /\ \A i \in 1..Len(calls) : calls[i].commands # <<run.tries[3]>>

GateCommandDone == run.op = "_send_gate_command" /\ run.pc = "done"

\* The format order the claim gives, per command code: the code as a string,
\* its integer, the gate_* name, the short aliases.
ExpectedGateCodes(command_code) ==
    CASE command_code = "101" ->
           <<Str("101"), PyInt(101), Str("gate_open"), Str("open"), Str("open_gate")>>
      [] command_code = "102" ->
           <<Str("102"), PyInt(102), Str("gate_close"), Str("close"), Str("close_gate")>>
      [] command_code = "103" -> <<Str("103"), PyInt(103), Str("gate_stop"), Str("stop")>>
      [] command_code = "104" -> <<Str("104"), PyInt(104), Str("gate_lock"), Str("lock")>>
      [] command_code = "110" ->
           <<Str("110"), PyInt(110), Str("gate_fast_open"), Str("fast_open"),
             Str("fast_opening")>>
      [] command_code = "105" -> <<Str("105"), PyInt(105)>>
      [] OTHER -> <<Str(command_code)>>

\* C13: on a gate _send_gate_command sends its formats one command per call in
\* the fixed order, returns at the first accepted call without trying a later
\* format, and raises, the error of the last attempt, if and only if every
\* format was rejected; off a gate it makes no call and returns without raising.
C13_GateCommand ==
    GateCommandDone =>
        IF entity.category # "qt"
        THEN calls = <<>> /\ run.outcome = "returned"
        ELSE LET expected == ExpectedGateCodes(run.command_code) IN
             /\ Len(calls) \in 1..Len(expected)
             /\ \A i \in 1..Len(calls) :
                  /\ calls[i].device_id = entity.device_id
                  /\ calls[i].commands = <<Command(expected[i], run.value)>>
             /\ \A i \in 1..(Len(calls) - 1) : ~calls[i].ok
             /\ run.outcome = "returned" <=> calls[Len(calls)].ok
             /\ run.outcome = "raised" <=>
                  (Len(calls) = Len(expected) /\ AllCallsFailed)
             /\ run.outcome = "raised" => run.error = Len(calls)

\* C13 witness: all five formats of command 101 were rejected, in order, and
\* the call has raised.
C13_Witness ==
    /\ GateCommandDone /\ entity.category = "qt" /\ run.command_code = "101"
    /\ Len(calls) = 5 /\ AllCallsFailed
    /\ calls[2].commands = <<Command(PyInt(101), run.value)>>
    /\ calls[5].commands = <<Command(Str("open_gate"), run.value)>>
    /\ run.outcome = "raised"

PressStarted == run.op = "press"

AcceptedCalls == { i \in 1..Len(calls) : calls[i].ok }

\* C14: a press, on any category and whatever the transport answers, ends
\* after a bounded number of send_commands calls (seven at most), and at most
\* one of its calls is accepted: an accepted call is the last call made.
C14_PressBounded ==
    /\ [](PressStarted =>
            /\ Len(calls) <= 7
            /\ Cardinality(AcceptedCalls) <= 1
            /\ \A i \in AcceptedCalls : i = Len(calls))
    /\ (PressStarted ~> run.pc = "done")

\* C14 witness: a press on a gate has ended after seven calls, of which only
\* the last was accepted.
C14_Witness ==
    /\ GatePressDone
    /\ Len(calls) = 7
    /\ AcceptedCalls = {7}

(***************************************************************************)
(* ElectricityTypeData.from_raw (base.py 120-129).                         *)
(*                                                                         *)
(* The argument is a base64 text: complete groups of four characters, each *)
(* character a number 0..63, then a tail of up to three characters and the *)
(* '=' signs after it.  A bytes value is a sequence of numbers 0..255.     *)
(***************************************************************************)
Base64Text(groups, tail, pad) == [groups |-> groups, tail |-> tail, pad |-> pad]

\* The three bytes of a group, and the bytes of a padded tail.
GroupBytes(g) ==
    LET n == ((g[1] * 64 + g[2]) * 64 + g[3]) * 64 + g[4]
    IN <<n \div 65536, (n \div 256) % 256, n % 256>>

TailBytes(t) ==
    IF Len(t) = 2 THEN <<(t[1] * 64 + t[2]) \div 16>>
    ELSE IF Len(t) = 3
    THEN LET n == ((t[1] * 64 + t[2]) * 64 + t[3]) \div 4 IN <<n \div 256, n % 256>>
    ELSE <<>>

\* base64.b64decode (line 123): one character more than a multiple of four,
\* or a tail with fewer '=' signs than it needs, raises binascii.Error.
b64decode(data) ==
    IF Len(data.tail) = 1 \/ (Len(data.tail) > 1 /\ data.pad < 4 - Len(data.tail))
    THEN Raise("binascii.Error")
    ELSE Return([i \in 1..(3 * Len(data.groups)) |->
                   GroupBytes(data.groups[((i - 1) \div 3) + 1])[((i - 1) % 3) + 1]]
                \o TailBytes(data.tail))

\* raw[a:b]: a slice stops at the end of the bytes.
Slice(raw, a, b) == SubSeq(raw, a + 1, IF b < Len(raw) THEN b ELSE Len(raw))

\* The unsigned big-endian integer of a buffer.
RECURSIVE BigEndian(_)
BigEndian(buffer) ==
    IF buffer = <<>> THEN 0
    ELSE BigEndian(SubSeq(buffer, 1, Len(buffer) - 1)) * 256 + buffer[Len(buffer)]

\* A variant that accepts a buffer of any size.
unpack_any_size(size, buffer) == Return(BigEndian(buffer))

\* struct.unpack(">H", buffer)[0] (size 2) and struct.unpack(">L", buffer)[0]
\* (size 4): struct.error unless the buffer has exactly that size.
unpack(size, buffer) ==
    IF Len(buffer) # size THEN Raise("struct.error") ELSE Return(BigEndian(buffer))

\* str(float) is the shortest decimal that converts back to the same float,
\* with at least one digit after the point.  A decimal string is kept as
\* units / 10^places.  The floats of from_raw are quotients by 10.0 or
\* 1000.0, so three places are tried; places = 0 marks a longer string.
DecimalStr(units, places) == [cls |-> "str", units |-> units, places |-> places]

\* The integer nearest to f * 10^d, for a float 0 <= f < 2^24.
DecimalUnits(f, d) ==
    IF f.sign = 0 THEN 0
    ELSE LET p == WMul(f.m, Pow10(d))
             drop == -f.e
         IN IF drop <= 0 THEN WToNat(p) * Pow2(-drop)
            ELSE IF drop > 4 * LimbBits THEN 0
            ELSE WToNat(WShr(p, drop)) + (WShr(p, drop - 1)[4] % 2)

str_float(f) ==
    LET places == { d \in 1..3 : FloatDiv(FloatOfInt(DecimalUnits(f, d)), Pow10(d)) = f }
    IN IF places = {} THEN DecimalStr(0, 0)
       ELSE LET d == CHOOSE d \in places : \A k \in places : d <= k
            IN DecimalStr(DecimalUnits(f, d), d)

from_raw(data) ==
    LET raw == b64decode(data) IN
    IF raw.st = "raise" THEN raw
    ELSE
      LET voltage == unpack(2, Slice(raw.val, 0, 2))
          electriccurrent == unpack(4, <<0>> \o Slice(raw.val, 2, 5))
          power == unpack(4, <<0>> \o Slice(raw.val, 5, 8))
      IN IF voltage.st = "raise" THEN voltage
         ELSE IF electriccurrent.st = "raise" THEN electriccurrent
         ELSE IF power.st = "raise" THEN power
         ELSE Return([cls |-> "ElectricityTypeData",
                      electriccurrent |->
                          str_float(FloatDiv(FloatOfInt(electriccurrent.val), 1000)),
                      power |-> str_float(FloatDiv(FloatOfInt(power.val), 1000)),
                      voltage |-> str_float(FloatDiv(FloatOfInt(voltage.val), 10))])

(***************************************************************************)
(* The electricity state machine: a base64 text is drawn and decoded.      *)
(***************************************************************************)
MaxGroups == 3

\* 00 64 00, FF FF FF, 00 00 00 and 12 34 56.
Groups == {<<0, 6, 16, 0>>, <<63, 63, 63, 63>>, <<0, 0, 0, 0>>, <<4, 35, 17, 22>>}

\* Nothing; "AMg=" (00 C8) and the same without its '='; "/w==" (FF) and the
\* same with one '='; a single character.
Tails ==
    { [tail |-> <<>>, pad |-> 0],
      [tail |-> <<0, 12, 32>>, pad |-> 1], [tail |-> <<0, 12, 32>>, pad |-> 0],
      [tail |-> <<63, 48>>, pad |-> 2], [tail |-> <<63, 48>>, pad |-> 1],
      [tail |-> <<5>>, pad |-> 0] }

Base64Texts ==
    { Base64Text(g, t.tail, t.pad) :
        g \in UNION { [1..n -> Groups] : n \in 0..MaxGroups }, t \in Tails }

Undecoded == [op |-> "none"]

InitElectricity ==
    /\ text \in Base64Texts
    /\ electricity = Undecoded

FromRaw ==
    /\ electricity = Undecoded
    /\ electricity' = [op |-> "from_raw", result |-> from_raw(text)]
    /\ UNCHANGED <<text, resolverVars, schemaVars, commandVars>>

(***************************************************************************)
(* Electricity claims.                                                     *)
(***************************************************************************)
\* The decimal string s is exactly n / 10^p.
DecimalIs(s, n, p) ==
    /\ s.cls = "str"
    /\ s.places \in 1..p
    /\ s.units * Pow10(p - s.places) = n

\* "AGQAAGQAAMg=": the bytes 00 64 00 00 64 00 00 C8.
ExampleText == Base64Text(<<<<0, 6, 16, 0>>, <<0, 6, 16, 0>>>>, <<0, 12, 32>>, 1)

\* C11: from_raw decodes voltage = (bytes 0-1, unsigned big-endian) / 10,
\* current = (bytes 2-4) / 1000 and power = (bytes 5-7) / 1000, the bytes
\* 00 64 00 00 64 00 00 C8 giving 10.0, 0.1 and 0.2; a text that decodes to
\* fewer than 8 bytes fails with an error and yields no record.
C11_FromRaw ==
    electricity.op = "from_raw" =>
      LET raw == b64decode(text)
          b == raw.val
          result == electricity.result
      IN
      /\ (raw.st = "ok" /\ Len(b) < 8) => result = Raise("struct.error")
      /\ raw.st = "raise" => result.st = "raise"
      /\ (raw.st = "ok" /\ Len(b) >= 8) =>
           /\ result.st = "ok"
           /\ DecimalIs(result.val.voltage, b[1] * 256 + b[2], 1)
           /\ DecimalIs(result.val.electriccurrent, (b[3] * 256 + b[4]) * 256 + b[5], 3)
           /\ DecimalIs(result.val.power, (b[6] * 256 + b[7]) * 256 + b[8], 3)
      /\ text = ExampleText =>
           result = Return([cls |-> "ElectricityTypeData",
                            electriccurrent |-> DecimalStr(1, 1),
                            power |-> DecimalStr(2, 1),
                            voltage |-> DecimalStr(100, 1)])

\* C11 witness: the example record has been decoded.
C11_Witness ==
    /\ electricity.op = "from_raw" /\ text = ExampleText
    /\ electricity.result.st = "ok"
    /\ electricity.result.val.voltage = DecimalStr(100, 1)
    /\ electricity.result.val.power = DecimalStr(2, 1)

\* A text of seven bytes has failed.
ShortInputFails ==
    electricity.op = "from_raw" /\ b64decode(text).st = "ok"
    /\ Len(b64decode(text).val) = 7 /\ electricity.result = Raise("struct.error")

(***************************************************************************)
(* Specifications.                                                         *)
(***************************************************************************)
ResolverOff == device = [status_range |-> NoDoc, function |-> NoDoc, status |-> NoDoc]
               /\ lookup = [op |-> "off"]
SchemaOff == blob = EmptyText /\ schema = [st |-> "off"] /\ trip = Idle /\ remap = Idle
ElectricityOff == text = Base64Text(<<>>, <<>>, 0) /\ electricity = [op |-> "off"]

CommandOff ==
    /\ entity = [device_id |-> "dev1", category |-> "sd", key |-> "RESET_MAP"]
    /\ run = [RunIdle EXCEPT !.pc = "off"]
    /\ calls = <<>>
    /\ commands = <<>>

NextResolver == FindDpcode \/ GetDptype
NextSchema ==
    FromJson \/ ScaleValue \/ ScaleValueBack \/ ReadScaled \/ RemapValueTo
      \/ RemapValueFrom

NextCommand ==
    Press \/ SendCommand \/ SendGateCommand \/ GateAttempt \/ FirstAttempt
      \/ SecondAttempt

NextElectricity == FromRaw

InitResolverOnly == InitResolver /\ SchemaOff /\ CommandOff /\ ElectricityOff
InitSchemaOnly == InitSchema /\ ResolverOff /\ CommandOff /\ ElectricityOff
InitCommandOnly == InitCommand /\ ResolverOff /\ SchemaOff /\ ElectricityOff
InitElectricityOnly == InitElectricity /\ ResolverOff /\ SchemaOff /\ CommandOff

SpecResolver == InitResolverOnly /\ [][NextResolver]_vars
SpecSchema == InitSchemaOnly /\ [][NextSchema]_vars
SpecCommand == InitCommandOnly /\ [][NextCommand]_vars
SpecElectricity == InitElectricityOnly /\ [][NextElectricity]_vars

\* Every send_commands call answers (it returns or raises), and the code between
\* two calls runs to the next call or to the end of the operation.
FairSpecCommand == SpecCommand /\ WF_vars(NextCommand)

Init == InitResolverOnly \/ InitSchemaOnly \/ InitCommandOnly \/ InitElectricityOnly
Next == NextResolver \/ NextSchema \/ NextCommand \/ NextElectricity
Spec == Init /\ [][Next]_vars

====
